---- MODULE Spec2Model ----
(***************************************************************************)
(* roboat: the response validator (src/validation.rs), the client state    *)
(* (src/client.rs) and the stale-token retry convention that the endpoint  *)
(* methods repeat (src/trades/mod.rs, src/bedev2/mod.rs, ...).             *)
(*                                                                         *)
(* Seven specifications share the module:                                  *)
(*   SpecValidate  the validator as a pure function of one request result; *)
(*   Spec          tasks issuing public calls through one shared Client    *)
(*                 against a server that may answer anything;              *)
(*   SpecPurchase  the same tasks calling purchase_non_tradable_limited;   *)
(*   SpecLock      tasks reading and writing the token through its RwLock; *)
(*   SpecObserved  calls of fetch_asset_metadata, force_refresh_xcsrf and  *)
(*                 decline_trade, the responses they receive recorded;     *)
(*   SpecIdentity  tasks calling the identity accessors;                   *)
(*   SpecGuards    calls at the grain of the guards they take and drop.    *)
(***************************************************************************)
EXTENDS Integers, Sequences, FiniteSets, TLC

VARIABLES
    request_result,   \* SpecValidate: the argument of validate_request_result
    validated,        \* SpecValidate: its return value (NoResult before the call)
    cookie_string,    \* Client.cookie_string : Option<HeaderValue>
    xcsrf,            \* Client.xcsrf : RwLock<String>
    user_information, \* Client.user_information : RwLock<Option<ClientUserInformation>>
    task,             \* per task: the public call it is running and where it is
    calls,            \* number of public calls started so far
    concurrent,       \* history: two public calls have overlapped in time
    first_cached,     \* history: the first value ever stored in user_information
    waiters,          \* SpecLock: the wait queue of the RwLock around xcsrf
    ltask,            \* SpecLock: per task, its call of xcsrf() or set_xcsrf()
    tokens_403,       \* history: the x-csrf-token values of the 403 responses received
    queues,           \* SpecGuards: the wait queue of each RwLock of the Client
    gtask             \* SpecGuards: per task, its call, its guards, the guard it awaits

vars == <<request_result, validated, cookie_string, xcsrf, user_information,
          task, calls, concurrent, first_cached, waiters, ltask,
          tokens_403, queues, gtask>>

(***************************************************************************)
(* Bounds                                                                  *)
(***************************************************************************)
MaxCalls == 2
MaxErrors == 2

Tasks == {"a", "b"}

(***************************************************************************)
(* Program constants                                                       *)
(***************************************************************************)
U16_MAX == 65535
CHALLENGE_MESSAGE == "Challenge is required to authorize the request"

(***************************************************************************)
(* Values on the wire                                                      *)
(***************************************************************************)
Tokens == {"t1", "t2"}
ChallengeIds == {"xyz", "abc"}
Messages == {"", CHALLENGE_MESSAGE, "Something else"}
\* 65536 does not fit the u16 of RobloxErrorRaw.code
Codes == {0, 9, 55, U16_MAX + 1}
Statuses == {200, 201, 400, 401, 403, 404, 429, 500, 503}
UserInfos == { [user_id |-> 1, username |-> "alice", display_name |-> "Alice"],
               [user_id |-> 2, username |-> "bob", display_name |-> "Bob"] }
Payloads == {"v1", "v2"}
\* values of uuid::Uuid::new_v4()
Keys == {"k1", "k2"}

\* A header is absent, or present with opaque bytes; HeaderValue::to_str
\* succeeds only on visible ASCII.
NoHeader == [present |-> FALSE]
TextHeader(v) == [present |-> TRUE, visible_ascii |-> TRUE, val |-> v]
OpaqueHeader(v) == [present |-> TRUE, visible_ascii |-> FALSE, val |-> v]

XcsrfHeaders == {NoHeader} \cup {TextHeader(t) : t \in Tokens} \cup {OpaqueHeader("t1")}
ChallengeIdHeaders == {NoHeader, TextHeader("abc")}

\* The text of an rblx-challenge-metadata header: base64 of some bytes, or
\* text outside the base64 alphabet.  The bytes are plain text, JSON lacking
\* fields of ChallengeMetadata, or a full ChallengeMetadata document.
MetadataBytes == {[kind |-> "text"], [kind |-> "json_partial"]}
                    \cup {[kind |-> "json_metadata", challenge_id |-> c] : c \in ChallengeIds}
MetadataTexts == {[enc |-> "raw"]} \cup {[enc |-> "base64", bytes |-> b] : b \in MetadataBytes}
MetadataHeaders == {NoHeader, OpaqueHeader([enc |-> "raw"])}
                      \cup {TextHeader(m) : m \in MetadataTexts}

\* A response body: not JSON, a JSON error document, a JSON who-am-I
\* document, or the JSON document the endpoint returns on success.
RawErrors == [code : Codes, message : Messages]
ErrorLists == UNION {[1..n -> RawErrors] : n \in 0..MaxErrors}
Bodies == {[kind |-> "text"]}
            \cup {[kind |-> "json_errors", errors |-> e] : e \in ErrorLists}
            \cup {[kind |-> "json_user", user |-> u] : u \in UserInfos}
            \cup {[kind |-> "json_value", value |-> v] : v \in Payloads}

Responses == [status : Statuses, xcsrf_header : XcsrfHeaders,
              metadata_header : MetadataHeaders,
              challenge_id_header : ChallengeIdHeaders, body : Bodies]

\* Result<Response, reqwest::Error> as handed to validate_request_result
TransportFailure == [ok |-> FALSE, cause |-> "reqwest"]
Received(r) == [ok |-> TRUE, response |-> r]
RequestResults == {TransportFailure} \cup {Received(r) : r \in Responses}

(***************************************************************************)
(* RoboatError and Result                                                  *)
(***************************************************************************)
Ok(v) == [ok |-> TRUE, val |-> v]
Err(k) == [ok |-> FALSE, kind |-> k]
InvalidXcsrf(t) == [ok |-> FALSE, kind |-> "InvalidXcsrf", new_xcsrf |-> t]
ChallengeRequired(c) == [ok |-> FALSE, kind |-> "ChallengeRequired", challenge_id |-> c]
UnknownRobloxErrorCode(c, m) ==
    [ok |-> FALSE, kind |-> "UnknownRobloxErrorCode", code |-> c, message |-> m]
UnidentifiedStatusCode(n) == [ok |-> FALSE, kind |-> "UnidentifiedStatusCode", code |-> n]
ReqwestError(e) == [ok |-> FALSE, kind |-> "ReqwestError", cause |-> e]
\* an unwrap() on Err: the task unwinds, no value is returned
Panic == [ok |-> FALSE, kind |-> "panic"]

IsInvalidXcsrf(r) == ~r.ok /\ r.kind = "InvalidXcsrf"

(***************************************************************************)
(* Decoders                                                                *)
(***************************************************************************)
\* Response::json::<RobloxErrorResponse>: the body must be a JSON document
\* with an errors array whose entries carry a u16 code and a message.
DecodeErrorResponse(body) ==
    IF body.kind = "json_errors"
          /\ \A i \in DOMAIN body.errors : body.errors[i].code \in 0..U16_MAX
    THEN Ok(body.errors)
    ELSE Err("decode")

\* general_purpose::STANDARD.decode
Base64Decode(text) ==
    IF text.enc = "base64" THEN Ok(text.bytes) ELSE Err("decode")

\* serde_json::from_slice::<ChallengeMetadata>
DecodeChallengeMetadata(bytes) ==
    IF bytes.kind = "json_metadata" THEN Ok([challenge_id |-> bytes.challenge_id])
    ELSE Err("decode")

(***************************************************************************)
(* src/validation.rs                                                       *)
(***************************************************************************)
\* headers.get(XCSRF_HEADER).map(|x| x.to_str().unwrap().to_string()) and
\* the match on it
XcsrfFromHeaders(response) ==
    LET h == response.xcsrf_header IN
    IF ~h.present THEN Err("XcsrfNotReturned")
    ELSE IF ~h.visible_ascii THEN Panic
    ELSE InvalidXcsrf(h.val)

\* the challenge id read from the rblx-challenge-id header when there is one
ChallengeFromHeaders_challenge_id_header(response) ==
    LET h == response.metadata_header IN
    IF ~h.present THEN Err("UnknownStatus403Format")
    ELSE IF ~h.visible_ascii THEN Panic
    ELSE LET decoded == Base64Decode(h.val) IN
         IF ~decoded.ok THEN Panic
         ELSE LET metadata == DecodeChallengeMetadata(decoded.val) IN
              IF ~metadata.ok THEN Err("UnknownStatus403Format")
              ELSE IF response.challenge_id_header.present
              THEN ChallengeRequired(response.challenge_id_header.val)
              ELSE ChallengeRequired(metadata.val.challenge_id)

ChallengeFromHeaders(response) ==
    LET h == response.metadata_header IN
    IF ~h.present THEN Err("UnknownStatus403Format")
    ELSE IF ~h.visible_ascii THEN Panic
    ELSE LET decoded == Base64Decode(h.val) IN
         IF ~decoded.ok THEN Panic
         ELSE LET metadata == DecodeChallengeMetadata(decoded.val) IN
              IF ~metadata.ok THEN Err("UnknownStatus403Format")
              ELSE ChallengeRequired(metadata.val.challenge_id)

\* process_403 without the special case of code 0
process_403_no_code_0(response) ==
    LET x == DecodeErrorResponse(response.body) IN
    IF x.ok
    THEN IF Len(x.val) = 0 THEN Err("UnknownStatus403Format")
         ELSE LET error == x.val[1] IN
              IF error.message # CHALLENGE_MESSAGE
              THEN UnknownRobloxErrorCode(error.code, error.message)
              ELSE ChallengeFromHeaders(response)
    ELSE XcsrfFromHeaders(response)

\* process_403 looking for a fresh token before it looks at the error
process_403_xcsrf_first(response) ==
    LET x == DecodeErrorResponse(response.body) IN
    IF x.ok
    THEN IF Len(x.val) = 0 THEN Err("UnknownStatus403Format")
         ELSE LET error == x.val[1] IN
              IF error.code = 0 \/ response.xcsrf_header.present
              THEN XcsrfFromHeaders(response)
              ELSE IF error.message # CHALLENGE_MESSAGE
                   THEN UnknownRobloxErrorCode(error.code, error.message)
                   ELSE ChallengeFromHeaders(response)
    ELSE XcsrfFromHeaders(response)

\* process_403 taking an empty error list for a refused token
process_403_empty_errors(response) ==
    LET x == DecodeErrorResponse(response.body) IN
    IF x.ok
    THEN IF Len(x.val) = 0 THEN XcsrfFromHeaders(response)
         ELSE LET error == x.val[1] IN
              IF error.code = 0 THEN XcsrfFromHeaders(response)
              ELSE IF error.message # CHALLENGE_MESSAGE
                   THEN UnknownRobloxErrorCode(error.code, error.message)
                   ELSE ChallengeFromHeaders(response)
    ELSE XcsrfFromHeaders(response)

process_403(response) ==
    LET x == DecodeErrorResponse(response.body) IN
    IF x.ok
    THEN IF Len(x.val) = 0 THEN Err("UnknownStatus403Format")
         ELSE LET error == x.val[1] IN
              IF error.code = 0 THEN XcsrfFromHeaders(response)
              ELSE IF error.message # CHALLENGE_MESSAGE
                   THEN UnknownRobloxErrorCode(error.code, error.message)
                   ELSE ChallengeFromHeaders(response)
    ELSE XcsrfFromHeaders(response)

\* process_400 never looking into the body
process_400_bad_request(response) == Err("BadRequest")

process_400(response) ==
    LET x == DecodeErrorResponse(response.body) IN
    IF ~x.ok THEN Err("BadRequest")
    ELSE IF Len(x.val) = 0 THEN Err("BadRequest")
    ELSE UnknownRobloxErrorCode(x.val[1].code, x.val[1].message)

\* handle_non_200_status_codes letting every 2xx status through
handle_non_200_status_codes_2xx(response) ==
    LET status_code == response.status IN
    CASE status_code \in 200..299 -> Ok(response)
      [] status_code = 400 -> process_400(response)
      [] status_code = 401 -> Err("InvalidRoblosecurity")
      [] status_code = 403 -> process_403(response)
      [] status_code = 429 -> Err("TooManyRequests")
      [] status_code = 500 -> Err("InternalServerError")
      [] OTHER -> UnidentifiedStatusCode(status_code)

\* handle_non_200_status_codes sending 401 down the 403 path
handle_non_200_status_codes_401(response) ==
    LET status_code == response.status IN
    CASE status_code = 200 -> Ok(response)
      [] status_code = 400 -> process_400(response)
      [] status_code \in {401, 403} -> process_403(response)
      [] status_code = 429 -> Err("TooManyRequests")
      [] status_code = 500 -> Err("InternalServerError")
      [] OTHER -> UnidentifiedStatusCode(status_code)

\* handle_non_200_status_codes taking the token of a 429 as well
handle_non_200_status_codes_429(response) ==
    LET status_code == response.status IN
    CASE status_code = 200 -> Ok(response)
      [] status_code = 400 -> process_400(response)
      [] status_code = 401 -> Err("InvalidRoblosecurity")
      [] status_code \in {403, 429} -> process_403(response)
      [] status_code = 500 -> Err("InternalServerError")
      [] OTHER -> UnidentifiedStatusCode(status_code)

handle_non_200_status_codes(response) ==
    LET status_code == response.status IN
    CASE status_code = 200 -> Ok(response)
      [] status_code = 400 -> process_400(response)
      [] status_code = 401 -> Err("InvalidRoblosecurity")
      [] status_code = 403 -> process_403(response)
      [] status_code = 429 -> Err("TooManyRequests")
      [] status_code = 500 -> Err("InternalServerError")
      [] OTHER -> UnidentifiedStatusCode(status_code)

validate_request_result(rr) ==
    IF rr.ok THEN handle_non_200_status_codes(rr.response)
    ELSE ReqwestError(rr.cause)

(***************************************************************************)
(* SpecValidate: validate_request_result applied to one request result     *)
(***************************************************************************)
NoResult == [ok |-> FALSE, kind |-> "none"]
None == [some |-> FALSE]
Some(v) == [some |-> TRUE, val |-> v]

LockTasks == {"p", "q", "r"}
IdleLockTask == [pc |-> "idle", op |-> "none", mode |-> "none", val |-> "",
                 waited |-> FALSE]
LockIdle ==
    /\ waiters = <<>>
    /\ ltask = [t \in LockTasks |-> IdleLockTask]

\* the two RwLocks of the Client and the guards on them
Locks == {"xcsrf", "user_information"}
Guard(lock, mode) == [lock |-> lock, mode |-> mode]
NoGuard == Guard("none", "none")
GuardTasks == {"g", "h"}
IdleGuardTask == [pc |-> "idle", op |-> "none", attempt |-> 0, held |-> {},
                  want |-> NoGuard, val |-> "", info |-> None]
GuardsIdle ==
    /\ tokens_403 = {}
    /\ queues = [l \in Locks |-> <<>>]
    /\ gtask = [t \in GuardTasks |-> IdleGuardTask]

\* the variables of SpecLock and SpecGuards in the specifications that
\* take each read and each write of a lock as one step
LocksUnused ==
    /\ waiters = <<>> /\ ltask = <<>>
    /\ queues = <<>> /\ gtask = <<>>

IdleTask == [pc |-> "idle", op |-> "none", arg |-> "-", attempt |-> 0, tok |-> "",
             first |-> NoResult, last |-> NoResult, ret |-> NoResult,
             nreq |-> 0, writes |-> 0, key |-> "-", uid |-> 0, bodies |-> <<>>,
             xcsrf_at_call |-> "", cached_at_call |-> FALSE, interfered |-> FALSE]

ClientIdle ==
    /\ cookie_string = None
    /\ xcsrf = ""
    /\ user_information = None
    /\ task = [t \in Tasks |-> IdleTask]
    /\ calls = 0
    /\ concurrent = FALSE
    /\ first_cached = None
    /\ LockIdle
    /\ GuardsIdle

InitValidate ==
    /\ request_result \in RequestResults
    /\ validated = NoResult
    /\ ClientIdle

ValidateRequestResult ==
    /\ validated = NoResult
    /\ validated' = validate_request_result(request_result)
    /\ UNCHANGED <<tokens_403, queues, gtask, waiters, ltask, request_result, cookie_string, xcsrf, user_information,
                   task, calls, concurrent, first_cached>>

NextValidate == ValidateRequestResult

SpecValidate == InitValidate /\ [][NextValidate]_vars

(***************************************************************************)
(* The public operations that are modelled, by the shape of their code     *)
(***************************************************************************)
Accessors == {"user_id", "username", "display_name"}
Ops == {"decline_trade", "send_trade", "upload_classic_clothing_to_group",
        "trades", "fetch_asset_data", "force_refresh_xcsrf"} \cup Accessors

PurchaseOps == {"purchase_non_tradable_limited"}
MetadataOps == {"fetch_asset_metadata"}
\* the operations of SpecObserved: the two that write the token in two
\* ways, and the one that sends no token
ObservedOps == MetadataOps \cup {"force_refresh_xcsrf", "decline_trade"}

\* match ..._internal().await { Err(InvalidXcsrf(new_xcsrf)) => { set_xcsrf; ..._internal() } }
WrappedOps == {"decline_trade", "send_trade", "upload_classic_clothing_to_group"}
                 \cup PurchaseOps \cup MetadataOps
Wrapped(op) == op \in WrappedOps
\* .header(XCSRF_HEADER, xcsrf)
XcsrfOps == {"decline_trade", "send_trade", "upload_classic_clothing_to_group",
             "fetch_asset_data", "force_refresh_xcsrf"} \cup PurchaseOps
SendsXcsrf(op) == op \in XcsrfOps
\* every operation asking for the cookie
NeedsCookie_every_op(op) == TRUE

\* let cookie_string = self.cookie_string()?;
NeedsCookie(op) == op # "force_refresh_xcsrf"
\* let user_id = self.user_id().await?; after the read of the token
UsesUserId(op) == op = "send_trade"

\* the image_path argument of upload_classic_clothing_to_group: a readable
\* file, a path without a final component (".."), or a path to no file
Args(op) == IF op = "upload_classic_clothing_to_group"
            THEN {"file", "no_file_name", "unreadable"} ELSE {"-"}

\* the field an identity accessor hands out
Field(op, info) ==
    CASE op = "user_id" -> info.user_id
      [] op = "username" -> info.username
      [] op = "display_name" -> info.display_name

\* What an internal implementation makes of a validated response:
\* parse_to_raw::<T> or nothing at all for the operations that only need the 200.
Decode(op, response) ==
    CASE op \in {"decline_trade", "force_refresh_xcsrf"} -> Ok("unit")
      [] op = "fetch_asset_data" -> Ok(response.body)
      [] op \in {"send_trade", "trades"} ->
            IF response.body.kind = "json_value" THEN Ok(response.body.value)
            ELSE Err("MalformedResponse")
      [] op = "upload_classic_clothing_to_group" ->
            IF response.body.kind = "json_value" THEN Ok("unit")
            ELSE Err("MalformedResponse")
      \* PurchaseNonTradeableLimitedRaw: "v1" stands for purchased = true
      [] op \in PurchaseOps ->
            IF response.body.kind # "json_value" THEN Err("MalformedResponse")
            ELSE IF response.body.value = "v1" THEN Ok("unit")
            ELSE Err("PurchaseNonTradableLimitedError")
      \* parse_to_raw::<AssetIdResponse>, then the scan of meta_data.errors,
      \* which returns at the first error of the list
      [] op \in MetadataOps ->
            IF response.body.kind # "json_asset" THEN Err("MalformedResponse")
            ELSE IF Len(response.body.errors) = 0 THEN Ok(response.body)
            ELSE IF response.body.errors[1] = 401 THEN Err("InvalidRoblosecurity")
            ELSE UnidentifiedStatusCode(response.body.errors[1])

\* parse_to_raw::<ClientUserInformation>
DecodeUserInformation(response) ==
    IF response.body.kind = "json_user" THEN Ok(response.body.user)
    ELSE Err("MalformedResponse")

(***************************************************************************)
(* The server: any answer to any request.  One response per outcome of the *)
(* validator is enough for the client's control flow.                      *)
(***************************************************************************)
Resp(status, xh, body) ==
    [status |-> status, xcsrf_header |-> xh, metadata_header |-> NoHeader,
     challenge_id_header |-> NoHeader, body |-> body]
ChallengeResp ==
    [status |-> 403, xcsrf_header |-> TextHeader("t2"),
     metadata_header |-> TextHeader([enc |-> "base64",
                           bytes |-> [kind |-> "json_metadata", challenge_id |-> "xyz"]]),
     challenge_id_header |-> TextHeader("abc"),
     body |-> [kind |-> "json_errors",
               errors |-> <<[code |-> 9, message |-> CHALLENGE_MESSAGE]>>]]
ServerResponses ==
    {Resp(200, NoHeader, [kind |-> "json_value", value |-> v]) : v \in Payloads}
    \cup {Resp(200, NoHeader, [kind |-> "json_user", user |-> u]) : u \in UserInfos}
    \cup {Resp(403, h, [kind |-> "text"]) : h \in XcsrfHeaders}
    \cup {Resp(403, TextHeader("t1"),
               [kind |-> "json_errors", errors |-> <<[code |-> 0, message |-> ""]>>]),
          ChallengeResp,
          Resp(401, NoHeader, [kind |-> "text"]),
          Resp(429, TextHeader("t2"), [kind |-> "text"])}
ServerResults == {TransportFailure} \cup {Received(r) : r \in ServerResponses}
\* validate_request_result on each of them
Validated == [rr \in ServerResults |-> validate_request_result(rr)]

\* What the asset delivery endpoint may answer besides: an AssetIdResponse
\* document with its list of embedded error codes (none, or absent, for an
\* asset that was found), and a 401 that carries a token.
AssetErrorCodes == {401, 404}
AssetErrorLists == UNION {[1..n -> AssetErrorCodes] : n \in 0..2}
AssetResponses ==
    {Resp(200, NoHeader, [kind |-> "json_asset", errors |-> e]) : e \in AssetErrorLists}
    \cup {Resp(401, TextHeader("t1"), [kind |-> "text"])}
ObservedResults == ServerResults \cup {Received(r) : r \in AssetResponses}
ValidatedObserved == [rr \in ObservedResults |-> validate_request_result(rr)]

(***************************************************************************)
(* src/client.rs                                                           *)
(***************************************************************************)
ROBLOSECURITY == ".ROBLOSECURITY=secret"

\* Client::cookie_string
CookieString == IF cookie_string.some THEN Ok(cookie_string.val)
                ELSE Err("RoblosecurityNotSet")

Running(rec) == rec.pc \notin {"idle", "returned", "panicked"}

\* the other tasks' records after a write of the token by task t
OthersAfterWrite(t, u) ==
    IF task[u].pc # "idle" THEN [task[u] EXCEPT !.interfered = TRUE] ELSE task[u]

(***************************************************************************)
(* The retry convention                                                    *)
(***************************************************************************)
\* the wrapper retrying as long as the token is refused
Wrapper_loop(rec, res) ==
    LET seen == [rec EXCEPT !.last = res,
                            !.first = IF rec.attempt = 1 THEN res ELSE @] IN
    IF res = Panic THEN [seen EXCEPT !.pc = "panicked"]
    ELSE IF Wrapped(rec.op) /\ IsInvalidXcsrf(res)
    THEN [seen EXCEPT !.pc = "set_xcsrf"]
    ELSE IF rec.op = "force_refresh_xcsrf" /\ IsInvalidXcsrf(res)
    THEN [seen EXCEPT !.pc = "set_xcsrf"]
    ELSE [seen EXCEPT !.pc = "returned", !.ret = res]

\* the wrapper retrying after any error of the first attempt
Wrapper_any_error(rec, res) ==
    LET seen == [rec EXCEPT !.last = res,
                            !.first = IF rec.attempt = 1 THEN res ELSE @] IN
    IF res = Panic THEN [seen EXCEPT !.pc = "panicked"]
    ELSE IF Wrapped(rec.op) /\ rec.attempt = 1 /\ IsInvalidXcsrf(res)
    THEN [seen EXCEPT !.pc = "set_xcsrf"]
    ELSE IF Wrapped(rec.op) /\ rec.attempt = 1 /\ ~res.ok
    THEN [seen EXCEPT !.pc = "start", !.attempt = @ + 1]
    ELSE IF rec.op = "force_refresh_xcsrf" /\ IsInvalidXcsrf(res)
    THEN [seen EXCEPT !.pc = "set_xcsrf"]
    ELSE [seen EXCEPT !.pc = "returned", !.ret = res]

\* What the public method does with the result res of an internal attempt.
Wrapper(rec, res) ==
    LET seen == [rec EXCEPT !.last = res,
                            !.first = IF rec.attempt = 1 THEN res ELSE @] IN
    IF res = Panic THEN [seen EXCEPT !.pc = "panicked"]
    ELSE IF Wrapped(rec.op) /\ rec.attempt = 1 /\ IsInvalidXcsrf(res)
    THEN [seen EXCEPT !.pc = "set_xcsrf"]
    ELSE IF rec.op = "force_refresh_xcsrf" /\ IsInvalidXcsrf(res)
    THEN [seen EXCEPT !.pc = "set_xcsrf"]
    ELSE [seen EXCEPT !.pc = "returned", !.ret = res]

\* the record of a call of the public method op that starts now
NewCall(op, arg) ==
    [IdleTask EXCEPT !.pc = IF op \in Accessors THEN "user_id" ELSE "start",
                     !.op = op, !.arg = arg, !.attempt = 1,
                     !.xcsrf_at_call = xcsrf,
                     !.cached_at_call = user_information.some]

\* A task calls a public method.
Call(t) ==
    /\ task[t].pc \in {"idle", "returned"}
    /\ calls < MaxCalls
    /\ \E op \in Ops : \E arg \in Args(op) :
          task' = [task EXCEPT ![t] = NewCall(op, arg)]
    /\ calls' = calls + 1
    /\ concurrent' = (concurrent \/ \E u \in Tasks \ {t} : Running(task[u]))
    /\ UNCHANGED <<tokens_403, queues, gtask, waiters, ltask, request_result, validated, cookie_string, xcsrf, user_information,
                   first_cached>>

\* A task calls purchase_non_tradable_limited.
CallPurchase(t) ==
    /\ task[t].pc \in {"idle", "returned"}
    /\ calls < MaxCalls
    /\ \E op \in PurchaseOps : \E arg \in Args(op) :
          task' = [task EXCEPT ![t] = NewCall(op, arg)]
    /\ calls' = calls + 1
    /\ concurrent' = (concurrent \/ \E u \in Tasks \ {t} : Running(task[u]))
    /\ UNCHANGED <<tokens_403, queues, gtask, waiters, ltask, request_result, validated, cookie_string, xcsrf, user_information,
                   first_cached>>

\* An internal implementation from the user id on.  send_trade_internal
\* has read the token already; purchase_non_tradable_limited_internal puts
\* the id into its request body, reads the token now, then asks for the
\* cookie.
AfterUserId(rec, user_id) ==
    IF rec.op \in PurchaseOps
    THEN IF ~CookieString.ok THEN Wrapper(rec, CookieString)
         ELSE [rec EXCEPT !.uid = user_id, !.tok = xcsrf, !.pc = "send"]
    ELSE [rec EXCEPT !.pc = "send"]

\* every attempt sending the token the client held when the call began
Start_token_at_call(t) ==
    LET rec == task[t] IN
    /\ rec.pc = "start"
    /\ IF rec.op \in PurchaseOps
       THEN \E k \in Keys :
               task' = [task EXCEPT ![t] = [rec EXCEPT !.key = k, !.pc = "user_id"]]
       ELSE task' = [task EXCEPT ![t] =
          IF rec.op = "upload_classic_clothing_to_group" /\ rec.arg = "no_file_name"
          THEN Wrapper(rec, Err("InvalidPath"))
          ELSE IF rec.op = "upload_classic_clothing_to_group" /\ rec.arg = "unreadable"
          THEN Wrapper(rec, Err("IoError"))
          ELSE IF NeedsCookie(rec.op) /\ ~CookieString.ok
          THEN Wrapper(rec, CookieString)
          ELSE [rec EXCEPT !.tok = IF SendsXcsrf(rec.op) THEN rec.xcsrf_at_call ELSE "",
                           !.pc = IF UsesUserId(rec.op) THEN "user_id" ELSE "send"]]
    /\ UNCHANGED <<tokens_403, queues, gtask, waiters, ltask, request_result, validated, cookie_string, xcsrf, user_information,
                   calls, concurrent, first_cached>>

\* The head of an internal implementation, up to its read of the token:
\* the path checks of the upload, cookie_string()?, self.xcsrf().await;
\* the idempotency key of the purchase, drawn before anything else.
Start(t) ==
    LET rec == task[t] IN
    /\ rec.pc = "start"
    /\ IF rec.op \in PurchaseOps
       THEN \E k \in Keys :
               task' = [task EXCEPT ![t] = [rec EXCEPT !.key = k, !.pc = "user_id"]]
       ELSE task' = [task EXCEPT ![t] =
          IF rec.op = "upload_classic_clothing_to_group" /\ rec.arg = "no_file_name"
          THEN Wrapper(rec, Err("InvalidPath"))
          ELSE IF rec.op = "upload_classic_clothing_to_group" /\ rec.arg = "unreadable"
          THEN Wrapper(rec, Err("IoError"))
          ELSE IF NeedsCookie(rec.op) /\ ~CookieString.ok
          THEN Wrapper(rec, CookieString)
          ELSE [rec EXCEPT !.tok = IF SendsXcsrf(rec.op) THEN xcsrf ELSE "",
                           !.pc = IF UsesUserId(rec.op) THEN "user_id" ELSE "send"]]
    /\ UNCHANGED <<tokens_403, queues, gtask, waiters, ltask, request_result, validated, cookie_string, xcsrf, user_information,
                   calls, concurrent, first_cached>>

\* the accessors fetching without a look at the cache
UserId_uncached(t) ==
    LET rec == task[t] IN
    /\ rec.pc = "user_id"
    /\ IF ~CookieString.ok
       THEN task' = [task EXCEPT ![t] = Wrapper(rec, CookieString)]
       ELSE task' = [task EXCEPT ![t] = [rec EXCEPT !.pc = "whoami_sent",
                                                    !.nreq = @ + 1]]
    /\ UNCHANGED <<tokens_403, queues, gtask, waiters, ltask, request_result, validated, cookie_string, xcsrf, user_information,
                   calls, concurrent, first_cached>>

\* Client::user_id / username / display_name up to the who-am-I request of
\* user_information_internal.
UserId(t) ==
    LET rec == task[t] IN
    /\ rec.pc = "user_id"
    /\ IF user_information.some
       THEN /\ task' = [task EXCEPT ![t] =
                  IF rec.op \in Accessors
                  THEN Wrapper(rec, Ok(Field(rec.op, user_information.val)))
                  ELSE AfterUserId(rec, user_information.val.user_id)]
       ELSE IF ~CookieString.ok
       THEN /\ task' = [task EXCEPT ![t] = Wrapper(rec, CookieString)]
       ELSE /\ task' = [task EXCEPT ![t] = [rec EXCEPT !.pc = "whoami_sent",
                                                       !.nreq = @ + 1]]
    /\ UNCHANGED <<tokens_403, queues, gtask, waiters, ltask, request_result, validated, cookie_string, xcsrf, user_information,
                   calls, concurrent, first_cached>>

\* user_information_internal leaving a populated cache as it is
UserInformationResponse_keep_first(t) ==
    LET rec == task[t] IN
    /\ rec.pc = "whoami_sent"
    /\ \E rr \in ServerResults :
         LET response == Validated[rr]
             info == IF response.ok THEN DecodeUserInformation(response.val) ELSE response
         IN IF info.ok
            THEN /\ user_information' = IF user_information.some THEN user_information
                                        ELSE Some(info.val)
                 /\ first_cached' = IF first_cached.some THEN first_cached
                                    ELSE Some(info.val)
                 /\ task' = [task EXCEPT ![t] =
                       IF rec.op \in Accessors
                       THEN Wrapper(rec, Ok(Field(rec.op, info.val)))
                       ELSE AfterUserId(rec, info.val.user_id)]
            ELSE /\ task' = [task EXCEPT ![t] = Wrapper(rec, info)]
                 /\ UNCHANGED <<user_information, first_cached>>
    /\ UNCHANGED <<tokens_403, queues, gtask, waiters, ltask, request_result, validated, cookie_string, xcsrf, calls, concurrent>>

\* user_information_internal emptying the cache when the fetch fails
UserInformationResponse_clear_on_error(t) ==
    LET rec == task[t] IN
    /\ rec.pc = "whoami_sent"
    /\ \E rr \in ServerResults :
         LET response == Validated[rr]
             info == IF response.ok THEN DecodeUserInformation(response.val) ELSE response
         IN IF info.ok
            THEN /\ user_information' = Some(info.val)
                 /\ first_cached' = IF first_cached.some THEN first_cached
                                    ELSE Some(info.val)
                 /\ task' = [task EXCEPT ![t] =
                       IF rec.op \in Accessors
                       THEN Wrapper(rec, Ok(Field(rec.op, info.val)))
                       ELSE AfterUserId(rec, info.val.user_id)]
            ELSE /\ task' = [task EXCEPT ![t] = Wrapper(rec, info)]
                 /\ user_information' = None
                 /\ UNCHANGED first_cached
    /\ UNCHANGED <<tokens_403, queues, gtask, waiters, ltask, request_result, validated, cookie_string, xcsrf, calls, concurrent>>

\* user_information_internal from the answer on: validate, parse, cache.
UserInformationResponse(t) ==
    LET rec == task[t] IN
    /\ rec.pc = "whoami_sent"
    /\ \E rr \in ServerResults :
         LET response == Validated[rr]
             info == IF response.ok THEN DecodeUserInformation(response.val) ELSE response
         IN IF info.ok
            THEN /\ user_information' = Some(info.val)
                 /\ first_cached' = IF first_cached.some THEN first_cached
                                    ELSE Some(info.val)
                 /\ task' = [task EXCEPT ![t] =
                       IF rec.op \in Accessors
                       THEN Wrapper(rec, Ok(Field(rec.op, info.val)))
                       ELSE AfterUserId(rec, info.val.user_id)]
            ELSE /\ task' = [task EXCEPT ![t] = Wrapper(rec, info)]
                 /\ UNCHANGED <<user_information, first_cached>>
    /\ UNCHANGED <<tokens_403, queues, gtask, waiters, ltask, request_result, validated, cookie_string, xcsrf, calls, concurrent>>

\* .json(&request_body): what a request body holds beyond the arguments of
\* the call.  Only the purchase puts something of its own making there; the
\* other bodies are built from the arguments (send_trade adds the user id).
Bodies_sent(rec) ==
    IF rec.op \in PurchaseOps
    THEN Append(rec.bodies, [idempotencyKey |-> rec.key, expectedPurchaserId |-> rec.uid])
    ELSE rec.bodies

\* .send()
Send(t) ==
    LET rec == task[t] IN
    /\ rec.pc = "send"
    /\ task' = [task EXCEPT ![t] =
          [rec EXCEPT !.pc = "sent", !.nreq = @ + 1,
                      !.bodies = Bodies_sent(rec)]]
    /\ UNCHANGED <<tokens_403, queues, gtask, waiters, ltask, request_result, validated, cookie_string, xcsrf, user_information,
                   calls, concurrent, first_cached>>

\* The answer arrives: validate_request_result(..)?, then the body.
Response(t) ==
    LET rec == task[t] IN
    /\ rec.pc = "sent"
    /\ \E rr \in ServerResults :
         LET response == Validated[rr]
             res == IF response.ok THEN Decode(rec.op, response.val) ELSE response
         IN task' = [task EXCEPT ![t] = Wrapper(rec, res)]
    /\ UNCHANGED <<tokens_403, queues, gtask, waiters, ltask, request_result, validated, cookie_string, xcsrf, user_information,
                   calls, concurrent, first_cached>>

\* the x-csrf-token values of the 403 responses received, rr among them
Tokens403(rr) ==
    IF rr.ok /\ rr.response.status = 403 /\ rr.response.xcsrf_header.present
    THEN tokens_403 \cup {rr.response.xcsrf_header.val}
    ELSE tokens_403

\* every token the server hands out stored as soon as it arrives
ResponseObserved_store_token(t) ==
    LET rec == task[t] IN
    /\ rec.pc = "sent"
    /\ \E rr \in ObservedResults :
         LET response == ValidatedObserved[rr]
             res == IF response.ok THEN Decode(rec.op, response.val) ELSE response
         IN /\ task' = [task EXCEPT ![t] = Wrapper(rec, res)]
            /\ request_result' = rr
            /\ validated' = response
            /\ tokens_403' = Tokens403(rr)
            /\ xcsrf' = IF IsInvalidXcsrf(res) THEN res.new_xcsrf ELSE xcsrf
    /\ UNCHANGED <<queues, gtask, waiters, ltask, cookie_string, user_information,
                   calls, concurrent, first_cached>>

\* The answer arrives, as in Response, and is written down: the request
\* result handed to validate_request_result, what the validator returned,
\* the token of a 403.
ResponseObserved(t) ==
    LET rec == task[t] IN
    /\ rec.pc = "sent"
    /\ \E rr \in ObservedResults :
         LET response == ValidatedObserved[rr]
             res == IF response.ok THEN Decode(rec.op, response.val) ELSE response
         IN /\ task' = [task EXCEPT ![t] = Wrapper(rec, res)]
            /\ request_result' = rr
            /\ validated' = response
            /\ tokens_403' = Tokens403(rr)
    /\ UNCHANGED <<queues, gtask, waiters, ltask, cookie_string, xcsrf, user_information,
                   calls, concurrent, first_cached>>

\* the retry without the write of the new token
set_xcsrf_dropped(t) ==
    LET rec == task[t] IN
    /\ rec.pc = "set_xcsrf"
    /\ UNCHANGED xcsrf
    /\ task' = [task EXCEPT ![t] =
          IF rec.op = "force_refresh_xcsrf"
          THEN [rec EXCEPT !.pc = "returned", !.ret = Ok("unit")]
          ELSE [rec EXCEPT !.pc = "start", !.attempt = @ + 1]]
    /\ UNCHANGED <<tokens_403, queues, gtask, waiters, ltask, request_result, validated, cookie_string, user_information,
                   calls, concurrent, first_cached>>

\* set_xcsrf storing the new token only over the token the attempt had sent
set_xcsrf_if_unchanged(t) ==
    LET rec == task[t] IN
    /\ rec.pc = "set_xcsrf"
    /\ xcsrf' = IF xcsrf = rec.tok THEN rec.last.new_xcsrf ELSE xcsrf
    /\ task' = [u \in Tasks |->
          IF u # t THEN OthersAfterWrite(t, u)
          ELSE IF rec.op = "force_refresh_xcsrf"
          THEN [rec EXCEPT !.pc = "returned", !.ret = Ok("unit"), !.writes = @ + 1]
          ELSE [rec EXCEPT !.pc = "start", !.attempt = @ + 1, !.writes = @ + 1]]
    /\ UNCHANGED <<tokens_403, queues, gtask, waiters, ltask, request_result, validated, cookie_string, user_information,
                   calls, concurrent, first_cached>>

\* self.set_xcsrf(new_xcsrf).await, and what follows it in the caller.
set_xcsrf(t) ==
    LET rec == task[t] IN
    /\ rec.pc = "set_xcsrf"
    /\ xcsrf' = rec.last.new_xcsrf
    /\ task' = [u \in Tasks |->
          IF u # t THEN OthersAfterWrite(t, u)
          ELSE IF rec.op = "force_refresh_xcsrf"
          THEN [rec EXCEPT !.pc = "returned", !.ret = Ok("unit"), !.writes = @ + 1]
          ELSE [rec EXCEPT !.pc = "start", !.attempt = @ + 1, !.writes = @ + 1]]
    /\ UNCHANGED <<tokens_403, queues, gtask, waiters, ltask, request_result, validated, cookie_string, user_information,
                   calls, concurrent, first_cached>>

Init ==
    /\ request_result = TransportFailure
    /\ validated = NoResult
    /\ cookie_string \in {None, Some(ROBLOSECURITY)}
    /\ xcsrf = ""
    /\ user_information = None
    /\ task = [t \in Tasks |-> IdleTask]
    /\ calls = 0
    /\ concurrent = FALSE
    /\ first_cached = None
    /\ tokens_403 = {}
    /\ LocksUnused

Next == \E t \in Tasks :
    \/ Call(t)
    \/ Start(t)
    \/ UserId(t)
    \/ UserInformationResponse(t)
    \/ Send(t)
    \/ Response(t)
    \/ set_xcsrf(t)

Spec == Init /\ [][Next]_vars

\* Tasks calling purchase_non_tradable_limited through one client.
NextPurchase == \E t \in Tasks :
    \/ CallPurchase(t)
    \/ Start(t)
    \/ UserId(t)
    \/ UserInformationResponse(t)
    \/ Send(t)
    \/ Response(t)
    \/ set_xcsrf(t)

SpecPurchase == Init /\ [][NextPurchase]_vars

\* A task calls user_id, username or display_name.
CallAccessor(t) ==
    /\ task[t].pc \in {"idle", "returned"}
    /\ calls < MaxCalls
    /\ \E op \in Accessors : \E arg \in Args(op) :
          task' = [task EXCEPT ![t] = NewCall(op, arg)]
    /\ calls' = calls + 1
    /\ concurrent' = (concurrent \/ \E u \in Tasks \ {t} : Running(task[u]))
    /\ UNCHANGED <<tokens_403, queues, gtask, waiters, ltask, request_result, validated,
                   cookie_string, xcsrf, user_information, first_cached>>

NextIdentity == \E t \in Tasks :
    \/ CallAccessor(t)
    \/ UserId(t)
    \/ UserInformationResponse(t)

SpecIdentity == Init /\ [][NextIdentity]_vars

\* A task calls fetch_asset_metadata, force_refresh_xcsrf or decline_trade.
CallObserved(t) ==
    /\ task[t].pc \in {"idle", "returned"}
    /\ calls < MaxCalls
    /\ \E op \in ObservedOps : \E arg \in Args(op) :
          task' = [task EXCEPT ![t] = NewCall(op, arg)]
    /\ calls' = calls + 1
    /\ concurrent' = (concurrent \/ \E u \in Tasks \ {t} : Running(task[u]))
    /\ UNCHANGED <<tokens_403, queues, gtask, waiters, ltask, request_result, validated,
                   cookie_string, xcsrf, user_information, first_cached>>

\* None of these operations asks for the user id.
NextObserved == \E t \in Tasks :
    \/ CallObserved(t)
    \/ Start(t)
    \/ Send(t)
    \/ ResponseObserved(t)
    \/ set_xcsrf(t)

SpecObserved == Init /\ [][NextObserved]_vars

(***************************************************************************)
(* SpecLock: the RwLock around the token.  Client::xcsrf takes the read    *)
(* guard for the time of one clone, Client::set_xcsrf the write guard for  *)
(* the time of one assignment; neither holds a guard across an await.      *)
(* tokio::sync::RwLock hands out its permits in the order of arrival: a    *)
(* request that finds another one waiting queues behind it.                *)
(***************************************************************************)
client_vars == <<request_result, validated, cookie_string, user_information,
                 task, calls, concurrent, first_cached, tokens_403, queues, gtask>>

Holders(lt, mode) == {t \in LockTasks : lt[t].pc = "holding" /\ lt[t].mode = mode}

\* a lock that lets a reader in whenever no writer holds it
CanAcquire_reader_preferring(mode) ==
    /\ Holders(ltask, "write") = {}
    /\ mode = "write" => (waiters = <<>> /\ Holders(ltask, "read") = {})

\* RwLock::read / RwLock::write on first poll: the guard is there at once
\* when nobody waits and the guards handed out allow it
CanAcquire(mode) ==
    /\ waiters = <<>>
    /\ Holders(ltask, "write") = {}
    /\ mode = "write" => Holders(ltask, "read") = {}

\* .read().await / .write().await
Acquire(t, op, mode, val) ==
    /\ ltask[t].pc = "idle"
    /\ ltask' = [ltask EXCEPT ![t] =
                   [pc |-> IF CanAcquire(mode) THEN "holding" ELSE "waiting",
                    op |-> op, mode |-> mode, val |-> val,
                    waited |-> ~CanAcquire(mode)]]
    /\ waiters' = IF CanAcquire(mode) THEN waiters ELSE Append(waiters, t)

\* the permits a dropped guard frees go to the head of the queue: every
\* reader up to the next writer, or the writer once no guard is left
RECURSIVE Grant(_, _)
Grant(q, lt) ==
    IF q = <<>> THEN [q |-> q, lt |-> lt]
    ELSE LET h == Head(q) IN
         IF lt[h].mode = "read" /\ Holders(lt, "write") = {}
         THEN Grant(Tail(q), [lt EXCEPT ![h].pc = "holding"])
         ELSE IF lt[h].mode = "write" /\ Holders(lt, "write") = {}
                    /\ Holders(lt, "read") = {}
         THEN [q |-> Tail(q), lt |-> [lt EXCEPT ![h].pc = "holding"]]
         ELSE [q |-> q, lt |-> lt]

\* drop(guard)
Release(t) ==
    LET after == Grant(waiters, [ltask EXCEPT ![t] = IdleLockTask]) IN
    /\ waiters' = after.q
    /\ ltask' = after.lt

\* Client::xcsrf asking for the write guard
xcsrf_call_exclusive(t) ==
    /\ Acquire(t, "xcsrf", "write", "")
    /\ UNCHANGED <<xcsrf, client_vars>>

\* Client::xcsrf: self.xcsrf.read().await
xcsrf_call(t) ==
    /\ Acquire(t, "xcsrf", "read", "")
    /\ UNCHANGED <<xcsrf, client_vars>>

\* Client::xcsrf: .clone(), the guard dropped at the end of the statement
xcsrf_return(t) ==
    /\ ltask[t].pc = "holding" /\ ltask[t].op = "xcsrf"
    /\ Release(t)
    /\ UNCHANGED <<xcsrf, client_vars>>

\* Client::set_xcsrf: self.xcsrf.write().await
set_xcsrf_call(t) ==
    /\ \E v \in Tokens : Acquire(t, "set_xcsrf", "write", v)
    /\ UNCHANGED <<xcsrf, client_vars>>

\* Client::set_xcsrf: *guard = xcsrf, the guard dropped at the end of the statement
set_xcsrf_return(t) ==
    /\ ltask[t].pc = "holding" /\ ltask[t].op = "set_xcsrf"
    /\ xcsrf' = ltask[t].val
    /\ Release(t)
    /\ UNCHANGED client_vars

InitLock ==
    /\ request_result = TransportFailure
    /\ validated = NoResult
    /\ ClientIdle

NextLock == \E t \in LockTasks :
    \/ xcsrf_call(t)
    \/ xcsrf_return(t)
    \/ set_xcsrf_call(t)
    \/ set_xcsrf_return(t)

\* A task that holds a guard has no await before it drops it: under a fair
\* scheduler it does.  Nothing obliges a task to call again.
FairLock == \A t \in LockTasks :
    WF_vars(xcsrf_return(t)) /\ WF_vars(set_xcsrf_return(t))

SpecLock == InitLock /\ [][NextLock]_vars /\ FairLock

(***************************************************************************)
(* SpecGuards: user_id and send_trade at the grain of the guards.  A task  *)
(* is suspended where the code awaits: on a guard it has asked for and not *)
(* been given, and on the two network requests.  The client has its        *)
(* cookie.                                                                 *)
(***************************************************************************)
GuardOps == {"user_id", "send_trade"}
guard_frame == <<request_result, validated, cookie_string, task, calls, concurrent,
                 first_cached, waiters, ltask, tokens_403>>

HoldersG(gt, lock, mode) == {t \in GuardTasks : Guard(lock, mode) \in gt[t].held}

\* RwLock::read / RwLock::write on first poll, for either lock
CanAcquireG(lock, mode) ==
    /\ queues[lock] = <<>>
    /\ HoldersG(gtask, lock, "write") = {}
    /\ mode = "write" => HoldersG(gtask, lock, "read") = {}

\* .read().await / .write().await at the statement before position pc
AcquireG(t, lock, mode, pc) ==
    IF CanAcquireG(lock, mode)
    THEN /\ gtask' = [gtask EXCEPT ![t].held = @ \cup {Guard(lock, mode)}, ![t].pc = pc]
         /\ UNCHANGED queues
    ELSE /\ gtask' = [gtask EXCEPT ![t].want = Guard(lock, mode), ![t].pc = pc]
         /\ queues' = [queues EXCEPT ![lock] = Append(@, t)]

\* the guard of position pc is in hand
Guarded(t, pc, lock, mode) ==
    /\ gtask[t].pc = pc
    /\ gtask[t].want = NoGuard
    /\ Guard(lock, mode) \in gtask[t].held

\* the permits a dropped guard frees go to the head of the queue
RECURSIVE GrantG(_, _, _)
GrantG(lock, q, gt) ==
    IF q = <<>> THEN [q |-> q, gt |-> gt]
    ELSE LET h == Head(q)
             given == [gt EXCEPT ![h].held = @ \cup {gt[h].want}, ![h].want = NoGuard]
         IN
         IF gt[h].want.mode = "read" /\ HoldersG(gt, lock, "write") = {}
         THEN GrantG(lock, Tail(q), given)
         ELSE IF gt[h].want.mode = "write" /\ HoldersG(gt, lock, "write") = {}
                    /\ HoldersG(gt, lock, "read") = {}
         THEN [q |-> Tail(q), gt |-> given]
         ELSE [q |-> q, gt |-> gt]

\* the guard on lock goes out of scope; rec is the task's record after it
ReleaseG(t, lock, rec) ==
    LET after == GrantG(lock, queues[lock], [gtask EXCEPT ![t] = rec]) IN
    /\ queues' = [queues EXCEPT ![lock] = after.q]
    /\ gtask' = after.gt

Dropped(rec, lock, mode) == [rec EXCEPT !.held = @ \ {Guard(lock, mode)}]

\* A task calls user_id or send_trade.
CallGuards(t) ==
    /\ gtask[t].pc = "idle"
    /\ \E op \in GuardOps :
          gtask' = [gtask EXCEPT ![t] =
                      [IdleGuardTask EXCEPT !.op = op, !.attempt = 1,
                          !.pc = IF op = "send_trade" THEN "xcsrf" ELSE "user_id"]]
    /\ UNCHANGED <<queues, xcsrf, user_information, guard_frame>>

\* Client::xcsrf: self.xcsrf.read().await
xcsrf_read(t) ==
    /\ gtask[t].pc = "xcsrf"
    /\ AcquireG(t, "xcsrf", "read", "xcsrf_clone")
    /\ UNCHANGED <<xcsrf, user_information, guard_frame>>

\* send_trade_internal keeping the read guard on the token while it goes on
xcsrf_clone_guard_kept(t) ==
    /\ Guarded(t, "xcsrf_clone", "xcsrf", "read")
    /\ gtask' = [gtask EXCEPT ![t].val = xcsrf, ![t].pc = "user_id"]
    /\ UNCHANGED <<queues, xcsrf, user_information, guard_frame>>

\* Client::xcsrf: .clone(), the guard dropped at the end of the statement
xcsrf_clone(t) ==
    /\ Guarded(t, "xcsrf_clone", "xcsrf", "read")
    /\ ReleaseG(t, "xcsrf",
                [Dropped(gtask[t], "xcsrf", "read") EXCEPT !.val = xcsrf, !.pc = "user_id"])
    /\ UNCHANGED <<xcsrf, user_information, guard_frame>>

\* Client::user_id: self.user_information.read().await
user_id_read(t) ==
    /\ gtask[t].pc = "user_id"
    /\ AcquireG(t, "user_information", "read", "user_id_match")
    /\ UNCHANGED <<xcsrf, user_information, guard_frame>>

\* Client::user_id without the drop(guard) of its None arm
user_id_match_guard_kept(t) ==
    /\ Guarded(t, "user_id_match", "user_information", "read")
    /\ IF user_information.some
       THEN ReleaseG(t, "user_information",
                     [Dropped(gtask[t], "user_information", "read") EXCEPT
                         !.pc = IF gtask[t].op = "user_id" THEN "idle" ELSE "send"])
       ELSE /\ gtask' = [gtask EXCEPT ![t].pc = "whoami_sent"]
            /\ UNCHANGED queues
    /\ UNCHANGED <<xcsrf, user_information, guard_frame>>

\* Client::user_id: the match on the cache.  Some: the value is returned
\* and the guard dropped with the function's scope.  None: drop(guard),
\* then user_information_internal up to its .send().
user_id_match(t) ==
    /\ Guarded(t, "user_id_match", "user_information", "read")
    /\ ReleaseG(t, "user_information",
                [Dropped(gtask[t], "user_information", "read") EXCEPT
                    !.pc = IF ~user_information.some THEN "whoami_sent"
                           ELSE IF gtask[t].op = "user_id" THEN "idle" ELSE "send"])
    /\ UNCHANGED <<xcsrf, user_information, guard_frame>>

\* user_information_internal: the answer arrives; validate, parse.
user_information_response(t) ==
    /\ gtask[t].pc = "whoami_sent"
    /\ \E rr \in ServerResults :
         LET response == Validated[rr]
             info == IF response.ok THEN DecodeUserInformation(response.val) ELSE response
         IN gtask' = [gtask EXCEPT ![t] =
                        IF info.ok
                        THEN [@ EXCEPT !.info = Some(info.val), !.pc = "set_user_information"]
                        ELSE [IdleGuardTask EXCEPT !.held = gtask[t].held]]
    /\ UNCHANGED <<queues, xcsrf, user_information, guard_frame>>

\* Client::set_user_information: self.user_information.write().await
set_user_information_write(t) ==
    /\ gtask[t].pc = "set_user_information"
    /\ AcquireG(t, "user_information", "write", "set_user_information_store")
    /\ UNCHANGED <<xcsrf, user_information, guard_frame>>

\* Client::set_user_information: the assignment, the guard dropped at the
\* end of the statement; user_id returns, send_trade_internal goes on
set_user_information_store(t) ==
    /\ Guarded(t, "set_user_information_store", "user_information", "write")
    /\ user_information' = gtask[t].info
    /\ ReleaseG(t, "user_information",
                IF gtask[t].op = "user_id"
                THEN [IdleGuardTask EXCEPT
                        !.held = gtask[t].held \ {Guard("user_information", "write")}]
                ELSE [Dropped(gtask[t], "user_information", "write") EXCEPT !.pc = "send"])
    /\ UNCHANGED <<xcsrf, guard_frame>>

\* send_trade_internal: .send()
send_trade_send(t) ==
    /\ gtask[t].pc = "send"
    /\ gtask' = [gtask EXCEPT ![t].pc = "sent"]
    /\ UNCHANGED <<queues, xcsrf, user_information, guard_frame>>

\* send_trade: the answer arrives, and the wrapper's match on the result
send_trade_response(t) ==
    /\ gtask[t].pc = "sent"
    /\ \E rr \in ServerResults :
         LET response == Validated[rr]
             res == IF response.ok THEN Decode(gtask[t].op, response.val) ELSE response
         IN gtask' = [gtask EXCEPT ![t] =
                        IF gtask[t].attempt = 1 /\ IsInvalidXcsrf(res)
                        THEN [@ EXCEPT !.val = res.new_xcsrf, !.pc = "set_xcsrf"]
                        ELSE [IdleGuardTask EXCEPT !.held = gtask[t].held]]
    /\ UNCHANGED <<queues, xcsrf, user_information, guard_frame>>

\* Client::set_xcsrf: self.xcsrf.write().await
set_xcsrf_write(t) ==
    /\ gtask[t].pc = "set_xcsrf"
    /\ AcquireG(t, "xcsrf", "write", "set_xcsrf_store")
    /\ UNCHANGED <<xcsrf, user_information, guard_frame>>

\* Client::set_xcsrf: the assignment, the guard dropped at the end of the
\* statement; the wrapper runs the internal implementation again
set_xcsrf_store(t) ==
    /\ Guarded(t, "set_xcsrf_store", "xcsrf", "write")
    /\ xcsrf' = gtask[t].val
    /\ ReleaseG(t, "xcsrf",
                [Dropped(gtask[t], "xcsrf", "write") EXCEPT !.attempt = 2, !.pc = "xcsrf"])
    /\ UNCHANGED <<user_information, guard_frame>>

InitGuards ==
    /\ request_result = TransportFailure
    /\ validated = NoResult
    /\ cookie_string = Some(ROBLOSECURITY)
    /\ xcsrf = ""
    /\ user_information = None
    /\ task = [t \in Tasks |-> IdleTask]
    /\ calls = 0
    /\ concurrent = FALSE
    /\ first_cached = None
    /\ LockIdle
    /\ GuardsIdle

NextGuards == \E t \in GuardTasks :
    \/ CallGuards(t)
    \/ xcsrf_read(t)
    \/ xcsrf_clone(t)
    \/ user_id_read(t)
    \/ user_id_match(t)
    \/ user_information_response(t)
    \/ set_user_information_write(t)
    \/ set_user_information_store(t)
    \/ send_trade_send(t)
    \/ send_trade_response(t)
    \/ set_xcsrf_write(t)
    \/ set_xcsrf_store(t)

\* The executor keeps polling a task that can go on, and every request
\* sent is answered or fails.  Nothing obliges a task to call again.
FairGuards == \A t \in GuardTasks :
    /\ WF_vars(xcsrf_read(t)) /\ WF_vars(xcsrf_clone(t))
    /\ WF_vars(user_id_read(t)) /\ WF_vars(user_id_match(t))
    /\ WF_vars(user_information_response(t))
    /\ WF_vars(set_user_information_write(t)) /\ WF_vars(set_user_information_store(t))
    /\ WF_vars(send_trade_send(t)) /\ WF_vars(send_trade_response(t))
    /\ WF_vars(set_xcsrf_write(t)) /\ WF_vars(set_xcsrf_store(t))

SpecGuards == InitGuards /\ [][NextGuards]_vars /\ FairGuards

(***************************************************************************)
(* Properties                                                              *)
(***************************************************************************)
Returned(t) == task[t].pc = "returned"

\* C1: a wrapped call whose first attempt failed with InvalidXcsrf(T) and
\* whose second attempt succeeded returns the second attempt's value, and,
\* no other task having written the token during the call, the stored token is T.
C1_RetryIdempotence ==
    \A t \in Tasks :
        LET r == task[t] IN
        (Returned(t) /\ Wrapped(r.op) /\ r.attempt = 2
            /\ IsInvalidXcsrf(r.first) /\ r.last.ok)
        => /\ r.ret = r.last
           /\ ~r.interfered => xcsrf = r.first.new_xcsrf

C1_Witness ==
    \E t \in Tasks :
        /\ Returned(t) /\ task[t].op = "send_trade" /\ task[t].attempt = 2
        /\ task[t].first = InvalidXcsrf("t1") /\ task[t].ret = Ok("v2")
        /\ ~task[t].interfered /\ xcsrf = "t1"

\* C2: a wrapped call runs its internal implementation at most twice; once
\* the second attempt is over the call is over, and two InvalidXcsrf in a
\* row give the caller the second one.
C2_RetryTermination ==
    \A t \in Tasks :
        LET r == task[t] IN
        Wrapped(r.op)
        => /\ r.attempt <= 2
           /\ r.attempt = 2 => r.pc # "set_xcsrf"
           /\ (Returned(t) /\ r.attempt = 2 /\ IsInvalidXcsrf(r.last)) => r.ret = r.last

C2_Witness ==
    \E t \in Tasks :
        /\ Returned(t) /\ Wrapped(task[t].op) /\ task[t].attempt = 2
        /\ task[t].first = InvalidXcsrf("t1") /\ task[t].ret = InvalidXcsrf("t2")

\* C3: a wrapped call whose first attempt fails with an error other than
\* InvalidXcsrf returns that error after this one attempt, having written
\* nothing: the stored token is the one the call found, unless another
\* task wrote it meanwhile.
C3_OtherErrorsSurface ==
    \A t \in Tasks :
        LET r == task[t] IN
        (Returned(t) /\ Wrapped(r.op) /\ r.first # NoResult
            /\ ~r.first.ok /\ ~IsInvalidXcsrf(r.first))
        => /\ r.ret = r.first
           /\ r.attempt = 1
           /\ r.writes = 0
           /\ ~r.interfered => xcsrf = r.xcsrf_at_call

C3_Witness ==
    \E t \in Tasks :
        /\ Returned(t) /\ task[t].op = "decline_trade"
        /\ task[t].ret = Err("TooManyRequests") /\ task[t].nreq = 1
        /\ task[t].xcsrf_at_call = "t1" /\ xcsrf = "t1"

\* C4 (as claimed): whenever an attempt of an operation has ended in
\* InvalidXcsrf(T), the stored token is T from the caller's next step on,
\* as long as no other task writes it.
C4_Claim ==
    \A t \in Tasks :
        LET r == task[t] IN
        (IsInvalidXcsrf(r.last) /\ r.pc # "set_xcsrf" /\ ~r.interfered)
        => xcsrf = r.last.new_xcsrf

\* C5 (as claimed): no operation that needs the session credential hands
\* InvalidXcsrf to its caller after a single attempt.
C5_Claim ==
    \A t \in Tasks :
        LET r == task[t] IN
        (Returned(t) /\ NeedsCookie(r.op) /\ IsInvalidXcsrf(r.ret)) => r.attempt = 2

\* C6 (as claimed): without a roblosecurity every operation that needs it
\* returns RoblosecurityNotSet and sends nothing, whatever its arguments.
C6_Claim ==
    cookie_string = None
    => \A t \in Tasks :
          (Returned(t) /\ NeedsCookie(task[t].op))
          => task[t].ret = Err("RoblosecurityNotSet") /\ task[t].nreq = 0

\* C7: as long as the calls on a client follow one another, an accessor
\* called on an empty cache that succeeds has sent exactly one who-am-I
\* request and left its answer in the cache; an accessor called on a
\* populated cache sends nothing and returns the field of the first answer
\* ever cached, which the cache still holds.
C7_IdentityCaching ==
    ~concurrent
    => /\ first_cached.some => user_information = first_cached
       /\ \A t \in Tasks :
            LET r == task[t] IN
            (Returned(t) /\ r.op \in Accessors)
            => IF r.cached_at_call
               THEN r.nreq = 0 /\ r.ret = Ok(Field(r.op, first_cached.val))
               ELSE r.ret.ok => /\ r.nreq = 1
                                /\ user_information = first_cached
                                /\ r.ret = Ok(Field(r.op, first_cached.val))

C7_Witness ==
    /\ ~concurrent
    /\ \E t, u \in Tasks :
          /\ Returned(t) /\ task[t].op = "username" /\ ~task[t].cached_at_call
          /\ task[t].ret = Ok("alice") /\ task[t].nreq = 1
          /\ Returned(u) /\ task[u].op = "display_name" /\ task[u].cached_at_call
          /\ task[u].ret = Ok("Alice") /\ task[u].nreq = 0

\* C8: validate_request_result is Ok exactly for a response of status 200,
\* and then hands back that very response.
C8_OkIffStatus200 ==
    validated # NoResult
    => /\ validated.ok <=> (request_result.ok /\ request_result.response.status = 200)
       /\ validated.ok => validated.val = request_result.response

C8_Witness ==
    /\ validated.ok
    /\ request_result.response.status = 200
    /\ request_result.response.xcsrf_header = TextHeader("t1")

HeaderOutcome(h) ==
    IF ~h.present THEN Err("XcsrfNotReturned")
    ELSE IF h.visible_ascii THEN InvalidXcsrf(h.val)
    ELSE Panic

C10_HeaderDecides ==
    (validated # NoResult /\ request_result.ok /\ request_result.response.status = 403)
    => LET response == request_result.response
           body == response.body
           undecodable == body.kind # "json_errors"
                            \/ \E i \in DOMAIN body.errors : body.errors[i].code > U16_MAX
           code_0 == ~undecodable /\ Len(body.errors) > 0 /\ body.errors[1].code = 0
       IN (undecodable \/ code_0) => validated = HeaderOutcome(response.xcsrf_header)

C10_Witness ==
    /\ validated = InvalidXcsrf("t1")
    /\ request_result.response.body.kind = "json_errors"
    /\ Len(request_result.response.body.errors) > 0
    /\ request_result.response.body.errors[1] = [code |-> 0, message |-> "Something else"]

(***************************************************************************)
(* The 403 and 400 branches of the validator                               *)
(***************************************************************************)
\* the first error of a body that decodes as RobloxErrorResponse
Decodable(body) ==
    /\ body.kind = "json_errors"
    /\ \A i \in DOMAIN body.errors : body.errors[i].code <= U16_MAX
HasFirstError(body) == Decodable(body) /\ Len(body.errors) > 0
\* a 403 whose first error has a code other than 0 and the challenge phrase
ChallengeCase ==
    /\ validated # NoResult /\ request_result.ok
    /\ request_result.response.status = 403
    /\ HasFirstError(request_result.response.body)
    /\ request_result.response.body.errors[1].code # 0
    /\ request_result.response.body.errors[1].message = CHALLENGE_MESSAGE

\* C11: for a 403 with a decodable body whose first error (code not 0) has
\* exactly the challenge phrase as its message and whose
\* rblx-challenge-metadata header is base64 of a JSON metadata document with
\* challenge id C, the validator returns ChallengeRequired(C), whatever the
\* rblx-challenge-id header says.
C11_ChallengeRequired ==
    ChallengeCase
    => LET h == request_result.response.metadata_header IN
       (h.present /\ h.visible_ascii /\ h.val.enc = "base64"
           /\ h.val.bytes.kind = "json_metadata")
       => validated = ChallengeRequired(h.val.bytes.challenge_id)

C11_Witness ==
    /\ validated = ChallengeRequired("xyz")
    /\ request_result.response.challenge_id_header = TextHeader("abc")
    /\ request_result.response.xcsrf_header = TextHeader("t1")
    /\ request_result.response.body.errors[1].code = 9

\* C12 (as claimed): for a 403 whose first error carries the challenge
\* phrase, a rblx-challenge-metadata header that is missing, is not base64,
\* or is base64 of something that is no metadata document makes the
\* validator return UnknownStatus403Format, and nothing else happens.
C12_Claim ==
    ChallengeCase
    => LET h == request_result.response.metadata_header IN
       (~h.present
          \/ (h.visible_ascii /\ h.val.enc # "base64")
          \/ (h.visible_ascii /\ h.val.enc = "base64"
                 /\ h.val.bytes.kind # "json_metadata"))
       => validated = Err("UnknownStatus403Format")

C14_Claim ==
    (validated # NoResult /\ request_result.ok
        /\ request_result.response.status = 403
        /\ HasFirstError(request_result.response.body))
    => LET error == request_result.response.body.errors[1] IN
       (error.code = 9 /\ error.message # CHALLENGE_MESSAGE)
       => validated = Err("UserDoesNotOwnAsset")

\* C15 (as claimed): for a 400 the validator returns a domain error when
\* the first error's code maps to one, and BadRequest in every other case;
\* no code maps to a domain error in process_400, so BadRequest always.
C15_Claim ==
    (validated # NoResult /\ request_result.ok
        /\ request_result.response.status = 400)
    => validated = Err("BadRequest")

\* C15 (amended): for a 400 whose body does not decode as an error body or
\* holds no error the validator returns BadRequest; for a body with a first
\* error (code, message) it returns UnknownRobloxErrorCode(code, message).
C15_Embedded ==
    (validated # NoResult /\ request_result.ok
        /\ request_result.response.status = 400)
    => LET body == request_result.response.body IN
       IF HasFirstError(body)
       THEN validated = UnknownRobloxErrorCode(body.errors[1].code, body.errors[1].message)
       ELSE validated = Err("BadRequest")

C15_Witness ==
    /\ validated = UnknownRobloxErrorCode(55, "Something else")
    /\ request_result.response.status = 400
    /\ Len(request_result.response.body.errors) = 2

(***************************************************************************)
(* Calls racing on the token                                               *)
(***************************************************************************)
\* the step completes a write of the token by task t
Wrote(t) == task'[t].writes = task[t].writes + 1
\* the step hands task t, whose attempt in flight carried a token that is
\* no longer the stored one, the answer InvalidXcsrf
StaleRefused(t) ==
    /\ task[t].pc = "sent" /\ Wrapped(task[t].op)
    /\ task[t].tok # xcsrf
    /\ task'[t].pc # "sent" /\ IsInvalidXcsrf(task'[t].last)
LatestWriteWins ==
    /\ \A t \in Tasks : Wrote(t) => xcsrf' = task[t].last.new_xcsrf
    /\ xcsrf' # xcsrf => \E t \in Tasks : Wrote(t)

\* C18 (as claimed): a wrapped call whose attempt in flight used a token
\* that has meanwhile been replaced, and is refused with InvalidXcsrf,
\* goes on to its retry.
C18_Claim ==
    [][\A t \in Tasks : StaleRefused(t) => task'[t].pc = "set_xcsrf"]_vars

\* C18 (amended): with wrapped calls racing on one client every call makes
\* at most two attempts; every write of the token by a call stores exactly
\* the token that call was handed and nothing else changes the token, so
\* the stored token is always the latest write; a call whose attempt in
\* flight used a replaced token and is refused retries if that was its
\* first attempt and returns the InvalidXcsrf if it was its second.
C18_Race ==
    /\ [](\A t \in Tasks : Wrapped(task[t].op) => task[t].attempt <= 2)
    /\ [][/\ LatestWriteWins
          /\ \A t \in Tasks :
               StaleRefused(t)
               => IF task[t].attempt = 1
                  THEN task'[t].pc = "set_xcsrf" /\ task'[t].attempt = 1
                  ELSE /\ task'[t].pc = "returned"
                       /\ task'[t].ret = task'[t].last
                       /\ task'[t].attempt = 2]_vars

C18_Witness ==
    /\ concurrent
    /\ \E t, u \in Tasks :
          /\ t # u /\ Wrapped(task[t].op) /\ Wrapped(task[u].op)
          /\ task[t].first = InvalidXcsrf("t1") /\ task[t].writes = 1
          /\ task[t].attempt = 2 /\ task[t].pc = "sent" /\ task[t].tok = "t1"
          /\ task[u].first = InvalidXcsrf("t2") /\ task[u].writes = 1
          /\ task[u].pc = "start" /\ task[u].tok = "" /\ task[u].interfered
          /\ xcsrf = "t2"

\* C19: a call of force_refresh_xcsrf that returns has sent one request,
\* carrying the token it found, whether or not there is a roblosecurity;
\* it never returns RoblosecurityNotSet.  On a 200 it returns Ok(()) and
\* has not written the token; on InvalidXcsrf(T) it has stored T, returns
\* Ok(()) and has not sent again; any other error is returned as it is,
\* the token not written.
C19_ForceRefresh ==
    \A t \in Tasks :
        LET r == task[t] IN
        (Returned(t) /\ r.op = "force_refresh_xcsrf")
        => /\ r.nreq = 1 /\ r.attempt = 1
           /\ r.ret # Err("RoblosecurityNotSet")
           /\ ~r.interfered => r.tok = r.xcsrf_at_call
           /\ r.last.ok => r.ret = Ok("unit") /\ r.writes = 0
           /\ IsInvalidXcsrf(r.last)
                => /\ r.ret = Ok("unit") /\ r.writes = 1
                   /\ ~r.interfered => xcsrf = r.last.new_xcsrf
           /\ (~r.last.ok /\ ~IsInvalidXcsrf(r.last)) => r.ret = r.last /\ r.writes = 0
           /\ (r.writes = 0 /\ ~r.interfered) => xcsrf = r.xcsrf_at_call

C19_Witness ==
    /\ cookie_string = None
    /\ \E t \in Tasks :
          /\ Returned(t) /\ task[t].op = "force_refresh_xcsrf"
          /\ task[t].last = InvalidXcsrf("t2") /\ task[t].ret = Ok("unit")
          /\ task[t].xcsrf_at_call = "t1" /\ task[t].tok = "t1"
          /\ task[t].nreq = 1 /\ xcsrf = "t2"

(***************************************************************************)
(* The request a retry sends                                               *)
(***************************************************************************)
\* C20 (as claimed): the second attempt of a wrapped call sends the body
\* the first attempt sent (endpoint and arguments are those of the call);
\* only the CSRF header may differ.
C20_Claim ==
    \A t \in Tasks :
        LET r == task[t] IN
        (Wrapped(r.op) /\ Len(r.bodies) = 2) => r.bodies[2] = r.bodies[1]

(***************************************************************************)
(* The token a call sends and the token it leaves behind                   *)
(***************************************************************************)
\* the attempt of r has read the token and built its request
HasReadToken(r) == r.pc \in {"user_id", "whoami_sent", "send", "sent"}

\* C23: an attempt that sends a CSRF header sends the stored token as it
\* was when the attempt read it: on a first attempt the token the call
\* found (the empty string on a client just built), on the retry the token
\* T of the first attempt's InvalidXcsrf(T), as long as no other task wrote
\* the token during the call.
C23_TokenSent ==
    \A t \in Tasks :
        LET r == task[t] IN
        (SendsXcsrf(r.op) /\ r.op \notin Accessors /\ HasReadToken(r) /\ ~r.interfered)
        => /\ r.tok = xcsrf
           /\ r.attempt = 1 => r.tok = r.xcsrf_at_call
           /\ (Wrapped(r.op) /\ r.attempt = 2) => r.tok = r.first.new_xcsrf

C23_Witness ==
    /\ ~concurrent
    /\ \E t \in Tasks :
          /\ task[t].op = "decline_trade" /\ task[t].pc = "sent" /\ task[t].attempt = 2
          /\ task[t].xcsrf_at_call = "" /\ task[t].first = InvalidXcsrf("t2")
          /\ task[t].tok = "t2"

\* C24: a wrapped call whose two attempts both failed with InvalidXcsrf,
\* with T1 and then T2, has written the token once; when it returns
\* InvalidXcsrf(T2) the stored token is T1 unless another task wrote it.
C24_SecondTokenNotStored ==
    \A t \in Tasks :
        LET r == task[t] IN
        (Returned(t) /\ Wrapped(r.op) /\ r.attempt = 2
            /\ IsInvalidXcsrf(r.first) /\ IsInvalidXcsrf(r.last))
        => /\ r.ret = r.last
           /\ r.writes = 1
           /\ ~r.interfered => xcsrf = r.first.new_xcsrf

C24_Witness ==
    \E t \in Tasks :
        /\ Returned(t) /\ task[t].op = "decline_trade"
        /\ task[t].first = InvalidXcsrf("t1") /\ task[t].ret = InvalidXcsrf("t2")
        /\ ~task[t].interfered /\ xcsrf = "t1" /\ task[t].nreq = 2

\* C25: a wrapped call writes the token at most once, and only after a
\* first attempt that failed with InvalidXcsrf and before the second
\* attempt; a call whose first attempt succeeded or failed with another
\* error has written nothing and, no other task writing, the stored token
\* is the one the call found.
C25_OneWrite ==
    \A t \in Tasks :
        LET r == task[t] IN
        Wrapped(r.op)
        => /\ r.writes <= 1
           /\ r.writes = 1 => (IsInvalidXcsrf(r.first) /\ r.attempt = 2)
           /\ (r.attempt = 2 /\ r.pc # "set_xcsrf") => r.writes = 1
           /\ (r.first # NoResult /\ ~IsInvalidXcsrf(r.first))
                => /\ r.writes = 0 /\ r.attempt = 1
                   /\ ~r.interfered => xcsrf = r.xcsrf_at_call

C25_Witness ==
    \E t \in Tasks :
        /\ Returned(t) /\ task[t].op = "decline_trade"
        /\ task[t].first = Ok("unit") /\ task[t].writes = 0
        /\ task[t].xcsrf_at_call = "t2" /\ xcsrf = "t2" /\ ~task[t].interfered

OnlyCall(t) == calls = 1 /\ task[t].pc # "idle"

\* C21: fetch_asset_metadata sends no CSRF token on its first request; a
\* call whose request was answered 401 does not return after that one
\* request but sends a second one, and the second one carries the stored
\* token.
C21_Claim ==
    \A t \in Tasks :
        LET r == task[t] IN
        (r.op \in MetadataOps /\ OnlyCall(t))
        => /\ (r.attempt = 1 /\ r.pc = "sent") => r.tok = ""
           /\ (Returned(t) /\ r.nreq = 1)
                => ~(request_result.ok /\ request_result.response.status = 401)
           /\ (r.attempt = 2 /\ r.pc = "sent") => (r.tok = xcsrf /\ xcsrf # "")

\* C26: the stored token is the empty string the client was built with or
\* the x-csrf-token value of a 403 response this client has received.
C26_TokenOrigin == xcsrf = "" \/ xcsrf \in tokens_403

C26_Witness ==
    /\ xcsrf = "t1" /\ tokens_403 = {"t1", "t2"}
    /\ \E t \in Tasks : Returned(t) /\ task[t].op = "force_refresh_xcsrf"
    /\ \E t \in Tasks : Returned(t) /\ task[t].op = "fetch_asset_metadata"
                          /\ task[t].ret = InvalidXcsrf("t2")

(***************************************************************************)
(* The identity cache                                                      *)
(***************************************************************************)
\* an accessor call of t returns in this step
AccessorReturns(t) ==
    /\ task[t].op \in Accessors
    /\ task[t].pc \in {"user_id", "whoami_sent"}
    /\ task'[t].pc = "returned"

\* tasks whose accessor call began on an empty cache and returned a value
FetchedOk == {t \in Tasks : /\ Returned(t) /\ task[t].op \in Accessors
                            /\ ~task[t].cached_at_call /\ task[t].ret.ok}

\* C28: accessor calls that begin together on an empty cache and succeed
\* send between one and as many who-am-I requests as there are calls, one
\* per call at most; every successful who-am-I answer replaces the cache,
\* whatever it held; a populated cache never becomes empty; and a call
\* returns the field of its own answer, or of the cache as it read it.
C28_LazyFetch ==
    /\ [](\A t \in Tasks : task[t].op \in Accessors => task[t].nreq <= 1)
    /\ [](FetchedOk = Tasks
            => /\ task["a"].nreq + task["b"].nreq >= 1
               /\ task["a"].nreq + task["b"].nreq <= Cardinality(Tasks))
    /\ [][user_information.some => user_information'.some]_vars
    /\ [][\A t \in Tasks :
            (AccessorReturns(t) /\ task'[t].ret.ok)
            => IF task[t].pc = "user_id"
               THEN /\ user_information.some
                    /\ task'[t].ret = Ok(Field(task[t].op, user_information.val))
                    /\ task'[t].nreq = 0
               ELSE /\ user_information'.some
                    /\ task'[t].ret = Ok(Field(task[t].op, user_information'.val))
                    /\ task'[t].nreq = 1]_vars

C28_Witness ==
    /\ FetchedOk = Tasks
    /\ task["a"].op = "user_id" /\ task["a"].ret = Ok(1) /\ task["a"].nreq = 1
    /\ task["b"].op = "user_id" /\ task["b"].ret = Ok(2) /\ task["b"].nreq = 1
    /\ first_cached.val.user_id = 1 /\ user_information.val.user_id = 2

\* C29: an accessor call that returns an error (no cookie, an error of the
\* validator, a body that is no who-am-I document) leaves the identity
\* cache as it was and returns that error; no failure is remembered: a
\* call that finds the cache empty and the cookie set sends a request, so
\* a failure is returned without a request only for want of a cookie.
C29_FailedFetch ==
    /\ [][\A t \in Tasks :
            (AccessorReturns(t) /\ ~task'[t].ret.ok)
            => /\ user_information' = user_information
               /\ task'[t].ret = task'[t].last]_vars
    /\ [](\A t \in Tasks :
            LET r == task[t] IN
            (Returned(t) /\ r.op \in Accessors /\ ~r.ret.ok)
            => /\ ~r.cached_at_call
               /\ r.nreq = 0 => (r.ret = Err("RoblosecurityNotSet") /\ ~cookie_string.some)
               /\ r.nreq = 1 => cookie_string.some)
    /\ [](\A t \in Tasks :
            LET r == task[t] IN
            (~concurrent /\ Returned(t) /\ r.op \in Accessors /\ ~r.cached_at_call
                /\ cookie_string.some)
            => r.nreq = 1)

C29_Witness ==
    /\ ~concurrent /\ calls = 2
    /\ Returned("a") /\ task["a"].op = "username" /\ task["a"].nreq = 1
    /\ task["a"].ret = Err("MalformedResponse")
    /\ Returned("b") /\ task["b"].op = "username" /\ task["b"].nreq = 1
    /\ ~task["b"].cached_at_call /\ task["b"].ret = Ok("bob")
    /\ user_information = first_cached

(***************************************************************************)
(* Guards and suspension points                                            *)
(***************************************************************************)
OnNetwork(t) == gtask[t].pc \in {"whoami_sent", "sent"}
OnGuard(t) == gtask[t].want # NoGuard
\* the positions between the grant of a guard and its drop, none an await
CopyOrReplace == {"xcsrf_clone", "user_id_match", "set_user_information_store",
                  "set_xcsrf_store"}

\* C22: a task suspended on a network request holds no guard of either
\* lock; a guard is held only from its grant to the copy or the replace it
\* was taken for, one guard at a time, and a task outside a call holds
\* none, so a call abandoned at a suspension point leaves no lock held.
C22_NoGuardAcrossNetwork ==
    \A t \in GuardTasks :
        /\ OnNetwork(t) => (gtask[t].held = {} /\ ~OnGuard(t))
        /\ gtask[t].held # {}
             => (gtask[t].pc \in CopyOrReplace /\ Cardinality(gtask[t].held) = 1
                    /\ ~OnGuard(t))
        /\ gtask[t].pc = "idle" => gtask[t].held = {}

C22_Witness ==
    \E t, u \in GuardTasks :
        /\ gtask[t].pc = "whoami_sent" /\ gtask[t].op = "user_id"
        /\ Guarded(u, "set_user_information_store", "user_information", "write")
        /\ queues["user_information"] = <<>>

Waiting(t) == ltask[t].pc = "waiting"
Holding(t) == ltask[t].pc = "holding"
Pos(t) == CHOOSE i \in 1..Len(waiters) : waiters[i] = t

\* C16: a task that waits in set_xcsrf(v) eventually holds the write guard,
\* and once it holds it v becomes the stored token, however the other tasks
\* keep calling xcsrf().
C16_NoWriterStarvation ==
    \A t \in LockTasks : \A v \in Tokens :
        (Waiting(t) /\ ltask[t].op = "set_xcsrf" /\ ltask[t].val = v)
        ~> (Holding(t) /\ ltask[t].op = "set_xcsrf" /\ ltask[t].val = v
               /\ <>(ltask[t].pc = "idle" /\ xcsrf = v))

C16_Witness ==
    \E t, u, w \in LockTasks :
        /\ Holding(t) /\ ltask[t].op = "set_xcsrf" /\ ltask[t].waited
        /\ Waiting(u) /\ ltask[u].op = "xcsrf"
        /\ ltask[w].pc = "idle" /\ xcsrf = "t1"

\* C17: a task waits in xcsrf() only while a set_xcsrf call holds the lock
\* or waits ahead of it; calls of xcsrf() alone never make one another wait.
C17_ReadersShare ==
    \A t \in LockTasks :
        (Waiting(t) /\ ltask[t].op = "xcsrf")
        => \E u \in LockTasks \ {t} :
              /\ ltask[u].op = "set_xcsrf"
              /\ Holding(u) \/ (Waiting(u) /\ Pos(u) < Pos(t))

C17_Witness ==
    \E t, u \in LockTasks :
        /\ t # u
        /\ Holding(t) /\ ltask[t].op = "xcsrf" /\ ~ltask[t].waited
        /\ Holding(u) /\ ltask[u].op = "xcsrf" /\ ~ltask[u].waited

====
